---- MODULE Spec2Model ----
(***************************************************************************)
(* Model of the browser-side attachment layer of BuildingManagement        *)
(* (static/js/attachments.js): the lightbox viewer, the document preview   *)
(* modal, the attachment gallery and the upload queue.                     *)
(*                                                                         *)
(* Units.  scale and pinchStartScale are kept in hundredths (the code      *)
(* rounds scale with toFixed(2)), so 1.0 is 100, 5.0 is 500 and the step   *)
(* 0.25 is 25.  panX, panY, dragStartX and dragStartY are kept in          *)
(* twentieths of a pixel (the wheel handler adds offset * 0.05).  Pointer  *)
(* coordinates and distances are whole pixels.                             *)
(***************************************************************************)
EXTENDS Integers, Sequences, FiniteSets, TLC

\* ------------------------------------------------------------------------
\* Program constants (attachments.js:60-62), in hundredths.
SCALE_STEP == 25
MIN_SCALE == 100
MAX_SCALE == 500

\* Default maximum upload size, 10 MB.
MaxUploadBytes == 10485760

\* Files handed to the uploader in one run.
MaxFiles == 2

\* Files handed to the uploader in a run of one batch.
MaxBatch == MaxFiles + 1

\* Twentieths of a pixel per pixel: 1 / 0.05 (attachments.js:487).
PanUnit == 20

\* ------------------------------------------------------------------------
\* Bounds of the model.
\* |panX|, |panY| stay within MaxPan pixels: gestures that would carry the
\* image further are not taken.
MaxPan == 4
\* Events handled by the lightbox and the preview modal on one page.
MaxEvents == 6
MaxRequestFiles == 3
MaxStored == 3
MaxUnitRequests == 3

\* Pointer ids the browser hands out, and the positions (clientX, clientY)
\* pointer events carry.  The positions lie on a 3-4-5 diagonal so that
\* Math.hypot gives whole pixels.
PointerIds == {1, 2, 3}
Positions == {<<0, 0>>, <<3, 4>>, <<12, 16>>}
NoPointer == <<-1, -1>>

\* Cursor offsets from the image centre seen by the wheel handler, in pixels
\* (event.clientX - (rect.left + rect.width / 2), likewise for Y).
WheelOffsets == {<<-20, 40>>, <<40, -20>>}
WheelDeltas == {-1, 1}

\* Elements that carry data-attachment-viewer; "blankViewer" has no data-src.
ViewerTriggers == {"thumb", "zoomButton", "blankViewer"}
\* Elements that carry data-attachment-preview (data-external is not "1").
PreviewTriggers == {"docPreview", "blankPreview"}
Keys == {"Escape", "+", "=", "-", "_", "0", "Tab"}
OverlayActions == {"close", "zoom-in", "zoom-out", "reset", "open"}
PageOverflows == {"", "scroll"}

VARIABLES
    \* lightbox (attachments.js:45-70)
    overlay,              \* "undefined" | "hidden" | "active"
    overlayElements,      \* lightbox elements appended to document.body
    overlayImageSrc,      \* src attribute of the lightbox image
    overlaySpinnerHidden,
    imagePending,         \* events the lightbox image will still fire
    lastActiveTrigger,    \* "null" or a trigger
    initialBodyOverflow,  \* "null" or a style value
    pointers,             \* pointer id -> position, NoPointer when absent
    scale, panX, panY,
    isDragging, dragStartX, dragStartY,
    initialPinchDistance, pinchStartScale,
    \* document preview modal (attachments.js:52-57)
    docOverlay,           \* "undefined" | "hidden" | "active"
    docOverlayElements,   \* preview modal elements appended to document.body
    docFrameSrc,
    docSpinnerHidden,
    framePending,         \* load events the preview frame will still fire
    lastActiveDocTrigger,
    \* the page
    keydownListeners,     \* keydown listeners of document, in registration order
    bodyOverflow,         \* document.body.style.overflow
    pageOverflow,         \* the value the page was served with
    focus,                \* the focused element
    \* gallery and upload queue
    cards,                \* ids of the rendered cards, first card first
    emptyStateHidden,     \* emptyState.hidden
    queueHidden,          \* queue.hidden
    items,                \* the queue items and their requests, by file number
    nFiles,               \* files handed to uploadFile so far
    \* the server
    serverAttachments,    \* ids of the stored attachments
    nextId,               \* the id the next stored attachment gets
    objects,              \* ids of the attachments whose storage object exists
    apiCall,              \* the API request handled last
    apiReply,             \* the response given to it
    \* history of the current page
    pageStart,            \* nFiles when the page was loaded
    cardsAtLoad,          \* ids of the cards the page was served with
    mergedIds,            \* ids merged into the gallery since
    lastItem,             \* the request whose event was handled last, 0 if none
    \* delete actions of the gallery
    canManage,            \* attachmentsList.dataset.canManage === "1"
    deleteLinks,          \* ids of the cards that show a delete action
    deleteConfirmed,      \* the user confirmed the last delete request sent
    \* CSRF
    cookie,               \* value of the csrftoken cookie, "" when there is none
    csrfToken,            \* the constant csrfToken of the script
    \* the Playwright login helper (tests/playwright/utils/auth.js, env.js)
    processEnv,           \* PLAYWRIGHT_USERNAME and PLAYWRIGHT_PASSWORD, "" when unset
    envLoaded,            \* the flag `loaded` of ensurePlaywrightEnv
    submitted,            \* the credentials the last call submitted
    helperResult,         \* how the last call ended
    signedIn,             \* the browser context holds an authenticated session
    \* the unit-selection widget (src/unnamed/part_000)
    widgetReady,          \* initUnitsWidget has run on a page with the widget
    buildingValue,        \* value of the building field, "" when blank
    unitField,            \* the unit select: options, value and attributes
    unitRequests,         \* the populateUnits calls that fetch, by number
    nRequests,            \* how many there are
    events,               \* events handled so far
    lastEvent             \* the handler that ran last

chromeVars == <<overlay, overlayImageSrc, overlaySpinnerHidden, lastActiveTrigger,
                imagePending, overlayElements>>
gestureVars == <<pointers, isDragging, dragStartX, dragStartY,
                 initialPinchDistance, pinchStartScale>>
transformVars == <<scale, panX, panY>>
viewerVars == <<chromeVars, gestureVars, transformVars>>
docVars == <<docOverlay, docFrameSrc, docSpinnerHidden, lastActiveDocTrigger,
             framePending, docOverlayElements>>
pageVars == <<bodyOverflow, pageOverflow, initialBodyOverflow, focus, keydownListeners>>
galleryVars == <<canManage, deleteLinks, deleteConfirmed>>
csrfVars == <<cookie, csrfToken>>
apiVars == <<apiCall, apiReply>>
loginVars == <<processEnv, envLoaded, submitted, helperResult, signedIn>>
unitsVars == <<widgetReady, buildingValue, unitField, unitRequests, nRequests>>
siteVars == <<loginVars, unitsVars>>
attachmentVars == <<cards, emptyStateHidden, queueHidden, items, nFiles,
                    serverAttachments, nextId, pageStart, cardsAtLoad, mergedIds,
                    lastItem, galleryVars, csrfVars, objects, apiVars>>
uploadVars == <<attachmentVars, siteVars>>
vars == <<viewerVars, docVars, pageVars, uploadVars, events, lastEvent>>

\* ------------------------------------------------------------------------
\* Pure helpers

TriggerSrc(trigger) ==
    CASE trigger = "thumb" -> "/media/a.png"
      [] trigger = "zoomButton" -> "/media/b.png"
      [] trigger = "docPreview" -> "/viewer?file=c.pdf"
      [] OTHER -> ""

Abs(n) == IF n < 0 THEN -n ELSE n

\* Math.hypot on whole pixels (the positions make the result whole).
Hypot(dx, dy) == CHOOSE d \in 0..(Abs(dx) + Abs(dy)) : d * d = dx * dx + dy * dy

distanceBetween(a, b) == Hypot(a[1] - b[1], a[2] - b[2])

ActivePointers == {id \in PointerIds : pointers[id] # NoPointer}

\* parseFloat(x.toFixed(2)) of the rational num / den hundredths: the nearest
\* hundredth.  A value midway between two hundredths is the product of
\* doubles and may lie on either side of the midpoint, so both neighbours are
\* possible outcomes.
toFixed2_Truncated(num, den) == {num \div den}

toFixed2(num, den) ==
    LET q == num \div den
        r == num % den
    IN  IF 2 * r < den THEN {q}
        ELSE IF 2 * r > den THEN {q + 1}
        ELSE {q, q + 1}

\* clampScale without the upper limit.
clampScale_NoMax(num, den) ==
    IF num <= MIN_SCALE * den THEN {MIN_SCALE} ELSE toFixed2(num, den)

\* Math.min(MAX_SCALE, Math.max(MIN_SCALE, next)) then toFixed(2), for
\* next = num / den hundredths (den > 0).
clampScale(num, den) ==
    IF num <= MIN_SCALE * den THEN {MIN_SCALE}
    ELSE IF num >= MAX_SCALE * den THEN {MAX_SCALE}
    ELSE toFixed2(num, den)

\* setScale(next, {keepPan}): the possible values of <<scale, panX, panY>>.
setScale(num, den, keepPan) ==
    { <<s,
        IF ~keepPan /\ s = MIN_SCALE THEN 0 ELSE panX,
        IF ~keepPan /\ s = MIN_SCALE THEN 0 ELSE panY>> : s \in clampScale(num, den) }

stepZoom_KeepPan(delta) == setScale(scale + delta, 1, TRUE)

\* stepZoom(delta) == setScale(scale + delta, {keepPan: false})
stepZoom(delta) == setScale(scale + delta, 1, FALSE)

InPanRange(x, y) == Abs(x) <= MaxPan * PanUnit /\ Abs(y) <= MaxPan * PanUnit

LightboxVisible == overlay = "active"
DocVisible == docOverlay = "active"
Handled(name) == /\ events < MaxEvents
                 /\ events' = events + 1
                 /\ lastEvent' = name

\* document.addEventListener("keydown", fn): a listener already registered
\* is not registered twice.
addEventListener(listeners, fn) ==
    IF \E i \in 1..Len(listeners) : listeners[i] = fn
    THEN listeners
    ELSE Append(listeners, fn)

\* document.removeEventListener("keydown", fn)
removeEventListener(listeners, fn) == SelectSeq(listeners, LAMBDA g : g # fn)

\* initialBodyOverflow || ""
RestoredOverflow == IF initialBodyOverflow = "null" THEN "" ELSE initialBodyOverflow

\* ------------------------------------------------------------------------
\* Lightbox viewer

resetTransform_Kept == {<<scale, panX, panY>>}

\* overlayImage.setAttribute("src", src): the request of the image shown
\* before is aborted and fires nothing more.  A URL starts a request that
\* ends with load or error; the empty string starts none and has the
\* element fire error from a task that nothing cancels.
SetImageSrc(src) ==
    IF src = "" THEN {"clearing"} ELSE {"request"} \cup (imagePending \cap {"clearing"})

\* The "load" or "error" listener of overlayImage (attachments.js:368-378):
\* cause is the request or the clearing the event comes from.
onImageEvent(kind, cause) ==
    /\ overlay # "undefined"
    /\ cause \in imagePending
    /\ cause = "clearing" => kind = "error"
    /\ imagePending' = imagePending \ {cause}
    /\ overlaySpinnerHidden' = TRUE
    /\ lastEvent' = "image" \o kind
    /\ UNCHANGED <<overlay, overlayElements, overlayImageSrc, lastActiveTrigger,
                   gestureVars, transformVars, docVars, pageVars, uploadVars, events>>

\* resetTransform(): the new <<scale, panX, panY>>.
resetTransform == {<<MIN_SCALE, 0, 0>>}

ensureOverlay_Rebuilt(elements) == elements + 1

\* ensureOverlay(): the overlay is built and appended to document.body
\* unless it exists; the lightbox elements of the document afterwards.
ensureOverlay(elements) == IF overlay # "undefined" THEN elements ELSE elements + 1

\* openOverlay(trigger)
openOverlay(trigger) ==
    IF TriggerSrc(trigger) = ""
    THEN UNCHANGED vars
    ELSE /\ Handled("openOverlay")
         /\ overlayElements' = ensureOverlay(overlayElements)
         /\ overlay' = "active"
         /\ lastActiveTrigger' = trigger
         /\ overlaySpinnerHidden' = FALSE
         /\ overlayImageSrc' = TriggerSrc(trigger)
         /\ imagePending' = SetImageSrc(TriggerSrc(trigger))
         /\ \E o \in resetTransform : scale' = o[1] /\ panX' = o[2] /\ panY' = o[3]
         /\ initialBodyOverflow' = bodyOverflow
         /\ bodyOverflow' = "hidden"
         /\ keydownListeners' = addEventListener(keydownListeners, "onKeyDown")
         /\ focus' = "closeButton"
         /\ UNCHANGED <<gestureVars, docVars, pageOverflow, uploadVars>>

\* What closeOverlay() does to the lightbox's own state.
closeOverlayViewer ==
    /\ overlay' = "hidden"
    /\ overlayImageSrc' = ""
    /\ imagePending' = SetImageSrc("")
    /\ pointers' = [id \in PointerIds |-> NoPointer]
    /\ isDragging' = FALSE
    /\ initialPinchDistance' = 0
    /\ pinchStartScale' = MIN_SCALE
    /\ UNCHANGED <<overlayElements, overlaySpinnerHidden, lastActiveTrigger,
                   transformVars, dragStartX, dragStartY>>

\* closeOverlay()
closeOverlay ==
    IF overlay = "undefined"
    THEN UNCHANGED vars
    ELSE /\ closeOverlayViewer
         /\ bodyOverflow' = RestoredOverflow
         /\ keydownListeners' = removeEventListener(keydownListeners, "onKeyDown")
         /\ focus' = IF lastActiveTrigger = "null" THEN focus ELSE lastActiveTrigger
         /\ lastEvent' = "closeOverlay"
         /\ UNCHANGED <<docVars, initialBodyOverflow, pageOverflow, events, uploadVars>>

\* A handler that only moves scale and pan: updateTransform() after one of
\* the outcomes <<scale, panX, panY>>.
Transform(name, outcomes) ==
    /\ Handled(name)
    /\ \E o \in outcomes : scale' = o[1] /\ panX' = o[2] /\ panY' = o[3]
    /\ UNCHANGED <<chromeVars, gestureVars, docVars, pageVars, uploadVars>>

\* onOverlayClick(event): a click inside the visible lightbox; action is
\* event.target.dataset.action.
onOverlayClick(action) ==
    /\ LightboxVisible
    /\ CASE action = "close" -> closeOverlay
         [] action = "zoom-in" -> Transform("zoomIn", stepZoom(SCALE_STEP))
         [] action = "zoom-out" -> Transform("zoomOut", stepZoom(-SCALE_STEP))
         [] action = "reset" -> Transform("resetTransform", resetTransform)
         [] OTHER -> UNCHANGED vars

\* onKeyDown where the 0 key is handled without resetting anything.
onKeyDown_ResetIgnored(key) ==
    IF overlay # "active"
    THEN UNCHANGED vars
    ELSE CASE key = "Escape" -> closeOverlay
           [] key \in {"+", "="} -> Transform("zoomIn", stepZoom(SCALE_STEP))
           [] key \in {"-", "_"} -> Transform("zoomOut", stepZoom(-SCALE_STEP))
           [] key = "0" -> Transform("resetTransform", {<<scale, panX, panY>>})
           [] OTHER -> UNCHANGED vars

\* onKeyDown(event)
onKeyDown(key) ==
    IF overlay # "active"
    THEN UNCHANGED vars
    ELSE CASE key = "Escape" -> closeOverlay
           [] key \in {"+", "="} -> Transform("zoomIn", stepZoom(SCALE_STEP))
           [] key \in {"-", "_"} -> Transform("zoomOut", stepZoom(-SCALE_STEP))
           [] key = "0" -> Transform("resetTransform", resetTransform)
           [] OTHER -> UNCHANGED vars

\* onWheel(event): direction is 1 for deltaY < 0 and -1 otherwise; offset is
\* the cursor's offset from the centre of the image's bounding rectangle.
onWheelOutcomes_AlwaysNudged(direction, offset) ==
    { <<o[1], o[2] + offset[1], o[3] + offset[2]>> : o \in stepZoom(direction * SCALE_STEP) }

onWheelOutcomes(direction, offset) ==
    { IF o[1] > scale
      THEN <<o[1], o[2] + offset[1], o[3] + offset[2]>>
      ELSE o : o \in stepZoom(direction * SCALE_STEP) }

onWheel(deltaY, offset) ==
    /\ LightboxVisible
    /\ LET direction == IF deltaY < 0 THEN 1 ELSE -1
       IN  /\ \A o \in onWheelOutcomes(direction, offset) : InPanRange(o[2], o[3])
           /\ Transform("onWheel", onWheelOutcomes(direction, offset))

\* onPointerDown(event)
onPointerDown(id, pos) ==
    /\ LightboxVisible
    /\ pointers[id] = NoPointer
    /\ Handled("onPointerDown")
    /\ pointers' = [pointers EXCEPT ![id] = pos]
    /\ LET size == Cardinality(ActivePointers) + 1
           others == {pointers[i] : i \in ActivePointers}
       IN  IF size = 1
           THEN /\ isDragging' = (scale > MIN_SCALE)
                /\ dragStartX' = pos[1] * PanUnit - panX
                /\ dragStartY' = pos[2] * PanUnit - panY
                /\ UNCHANGED <<initialPinchDistance, pinchStartScale>>
           ELSE IF size = 2
           THEN /\ initialPinchDistance' = distanceBetween(CHOOSE p \in others : TRUE, pos)
                /\ pinchStartScale' = scale
                /\ UNCHANGED <<isDragging, dragStartX, dragStartY>>
           ELSE UNCHANGED <<isDragging, dragStartX, dragStartY,
                            initialPinchDistance, pinchStartScale>>
    /\ UNCHANGED <<chromeVars, transformVars, docVars, pageVars, uploadVars>>

\* onPointerMove(event): the possible values of <<scale, panX, panY>>.
onPointerMoveOutcomes(id, pos) ==
    LET moved == [pointers EXCEPT ![id] = pos]
        size == Cardinality(ActivePointers)
        other == CHOOSE i \in ActivePointers : size = 2 => i # id
    IN  IF size = 1 /\ isDragging
        THEN {<<scale, pos[1] * PanUnit - dragStartX, pos[2] * PanUnit - dragStartY>>}
        ELSE IF size = 2 /\ initialPinchDistance > 0
        THEN setScale(pinchStartScale * distanceBetween(moved[id], moved[other]),
                      initialPinchDistance, TRUE)
        ELSE {<<scale, panX, panY>>}

onPointerMove(id, pos) ==
    /\ LightboxVisible
    /\ IF pointers[id] = NoPointer
       THEN UNCHANGED vars
       ELSE /\ Handled("onPointerMove")
            /\ pointers' = [pointers EXCEPT ![id] = pos]
            /\ \A o \in onPointerMoveOutcomes(id, pos) : InPanRange(o[2], o[3])
            /\ \E o \in onPointerMoveOutcomes(id, pos) :
                   scale' = o[1] /\ panX' = o[2] /\ panY' = o[3]
            /\ UNCHANGED <<chromeVars, isDragging, dragStartX, dragStartY,
                           initialPinchDistance, pinchStartScale, docVars, pageVars, uploadVars>>

\* onPointerUp(event), also the pointercancel listener.
onPointerUp(id) ==
    /\ LightboxVisible
    /\ pointers[id] # NoPointer
    /\ Handled("onPointerUp")
    /\ pointers' = [pointers EXCEPT ![id] = NoPointer]
    /\ LET size == Cardinality(ActivePointers) - 1
       IN  /\ IF size < 2
              THEN initialPinchDistance' = 0 /\ pinchStartScale' = scale
              ELSE UNCHANGED <<initialPinchDistance, pinchStartScale>>
           /\ isDragging' = IF size = 0 THEN FALSE ELSE isDragging
    /\ UNCHANGED <<chromeVars, transformVars, dragStartX, dragStartY, docVars, pageVars,
                   uploadVars>>

\* ------------------------------------------------------------------------
\* Document preview modal

\* docFrame.setAttribute("src", src): the frame navigates and fires load
\* when the document has loaded.  The navigation under way is given up; the
\* load of a blank document that had already finished loading is still
\* delivered, later.
SetFrameSrc(src) ==
    IF src = "about:blank" THEN {{"blank"}}
    ELSE {{"request"}, {"request"} \cup (framePending \cap {"blank"})}

\* The "load" listener of docFrame (attachments.js:658-665).
onFrameLoad(cause) ==
    /\ docOverlay # "undefined"
    /\ cause \in framePending
    /\ framePending' = framePending \ {cause}
    /\ docSpinnerHidden' = TRUE
    /\ lastEvent' = "frameload"
    /\ UNCHANGED <<docOverlay, docOverlayElements, docFrameSrc, lastActiveDocTrigger,
                   viewerVars, pageVars, uploadVars, events>>

\* ensureDocOverlay(): the modal is built and appended to document.body
\* unless it exists; the modal elements of the document afterwards.
ensureDocOverlay(elements) == IF docOverlay # "undefined" THEN elements ELSE elements + 1

\* openDocOverlay(trigger)
openDocOverlay(trigger) ==
    IF TriggerSrc(trigger) = ""
    THEN UNCHANGED vars
    ELSE /\ Handled("openDocOverlay")
         /\ docOverlayElements' = ensureDocOverlay(docOverlayElements)
         /\ docOverlay' = "active"
         /\ lastActiveDocTrigger' = trigger
         /\ docSpinnerHidden' = FALSE
         /\ docFrameSrc' = TriggerSrc(trigger)
         /\ framePending' \in SetFrameSrc(TriggerSrc(trigger))
         /\ initialBodyOverflow' = bodyOverflow
         /\ bodyOverflow' = "hidden"
         /\ keydownListeners' = addEventListener(keydownListeners, "onDocKeyDown")
         /\ focus' = "docCloseButton"
         /\ UNCHANGED <<viewerVars, pageOverflow, uploadVars>>

\* What closeDocOverlay() does to the modal's own state.
closeDocOverlayModal ==
    /\ docOverlay' = "hidden"
    /\ docFrameSrc' = "about:blank"
    /\ framePending' \in SetFrameSrc("about:blank")
    /\ docSpinnerHidden' = FALSE
    /\ UNCHANGED <<lastActiveDocTrigger, docOverlayElements>>

\* closeDocOverlay()
closeDocOverlay ==
    IF docOverlay = "undefined"
    THEN UNCHANGED vars
    ELSE /\ closeDocOverlayModal
         /\ bodyOverflow' = RestoredOverflow
         /\ keydownListeners' = removeEventListener(keydownListeners, "onDocKeyDown")
         /\ focus' = IF lastActiveDocTrigger = "null" THEN focus ELSE lastActiveDocTrigger
         /\ lastEvent' = "closeDocOverlay"
         /\ UNCHANGED <<viewerVars, initialBodyOverflow, pageOverflow, events, uploadVars>>

\* onDocOverlayClick(event): a click inside the visible modal.
onDocOverlayClick(action) ==
    /\ DocVisible
    /\ IF action = "close" THEN closeDocOverlay ELSE UNCHANGED vars

\* onDocKeyDown(event)
onDocKeyDown(key) ==
    IF docOverlay # "active"
    THEN UNCHANGED vars
    ELSE IF key = "Escape" THEN closeDocOverlay ELSE UNCHANGED vars

\* ------------------------------------------------------------------------
\* Page events

\* onAttachmentsClick(event): target is the element of the gallery that
\* event.target.closest(...) finds.
onAttachmentsClick(target) ==
    IF target \in ViewerTriggers THEN openOverlay(target)
    ELSE IF target \in PreviewTriggers THEN openDocOverlay(target)
    ELSE UNCHANGED vars

Registered(fn) == \E i \in 1..Len(keydownListeners) : keydownListeners[i] = fn

\* A keydown event on document: every registered listener runs, in
\* registration order.  Escape with both overlays open runs closeOverlay()
\* and closeDocOverlay() in that order; the later focus() call wins.
KeyDown(key) ==
    /\ keydownListeners # <<>>
    /\ LET lightbox == Registered("onKeyDown") /\ overlay = "active"
           modal == Registered("onDocKeyDown") /\ docOverlay = "active"
       IN  IF key = "Escape" /\ lightbox /\ modal
           THEN /\ closeOverlayViewer
                /\ closeDocOverlayModal
                /\ bodyOverflow' = RestoredOverflow
                /\ keydownListeners' = <<>>
                /\ focus' = IF keydownListeners[Len(keydownListeners)] = "onKeyDown"
                            THEN lastActiveTrigger
                            ELSE lastActiveDocTrigger
                /\ lastEvent' = IF keydownListeners[Len(keydownListeners)] = "onKeyDown"
                                THEN "closeOverlay"
                                ELSE "closeDocOverlay"
                /\ UNCHANGED <<initialBodyOverflow, pageOverflow, events, uploadVars>>
           ELSE IF lightbox THEN onKeyDown(key)
           ELSE IF modal THEN onDocKeyDown(key)
           ELSE UNCHANGED vars

\* ------------------------------------------------------------------------
\* Server: validation gate and upload endpoint

\* The attachments a work order may hold when its page is first served.
InitialAttachments == {{}, {1}}

\* The files a user can pick.
FileNames == {"photo.png", "huge.png", "tool.exe"}

\* The candidate uploads an API request can carry.
CandidateFiles == FileNames \cup {"huge.exe", "virus.png", "manual.pdf"}

FileSize(file) ==
    CASE file = "photo.png" -> MaxUploadBytes
      [] file \in {"huge.png", "huge.exe"} -> MaxUploadBytes + 1
      [] OTHER -> 1024

\* Content types as <<type, subtype>>.
FileType(file) ==
    CASE file \in {"tool.exe", "huge.exe"} -> <<"application", "x-msdownload">>
      [] file = "manual.pdf" -> <<"application", "pdf">>
      [] OTHER -> <<"image", "png">>

AllowedTypes == {<<"application", "pdf">>}
AllowedPrefixes == {"image"}

\* The validation gate: "accepted" or the reason of the first failing rule.
\* The scan handlers a deployment can configure; "none" is the default.
ScanHandlers == {"none", "scanner"}

\* The scan handler: "accepted" or the reason it raises.
ScanHandler(handler, file) ==
    IF handler # "none" /\ file = "virus.png" THEN "infected" ELSE "accepted"

ValidationGate_Exclusive(file, handler) ==
    IF FileSize(file) >= MaxUploadBytes THEN "file too large"
    ELSE IF FileType(file) \notin AllowedTypes /\ FileType(file)[1] \notin AllowedPrefixes
    THEN "unsupported type"
    ELSE ScanHandler(handler, file)

ValidationGate(file, handler) ==
    IF FileSize(file) > MaxUploadBytes THEN "file too large"
    ELSE IF FileType(file) \notin AllowedTypes /\ FileType(file)[1] \notin AllowedPrefixes
    THEN "unsupported type"
    ELSE ScanHandler(handler, file)

\* Response bodies.  A JSON body is the object it parses to; absent members
\* are "" and <<>>.
JsonBody(error, errors, attachments) ==
    [kind |-> "json", error |-> error, errors |-> errors, attachments |-> attachments]
TextBody == [kind |-> "text", error |-> "", errors |-> <<>>, attachments |-> <<>>]
EmptyBody == [kind |-> "empty", error |-> "", errors |-> <<>>, attachments |-> <<>>]
Null == [kind |-> "null", error |-> "", errors |-> <<>>, attachments |-> <<>>]
NoResponse == [status |-> 0, body |-> EmptyBody]

\* Attachment metadata; delete_url is "" when the record has none.
Meta(id) == [id |-> id, delete_url |-> "/attachments/delete/"]
BareMeta(id) == [id |-> id, delete_url |-> ""]

\* How the server may answer one upload request.
ServerModes == {"normal", "relisted", "forbidden", "noFiles", "crash"}

\* The response of the upload endpoint to a request carrying one file.
UploadResponse(mode, file, known) ==
    CASE mode = "forbidden" -> [status |-> 403, body |-> TextBody]
      [] mode = "crash" -> [status |-> 500, body |-> EmptyBody]
      [] mode = "noFiles" ->
             [status |-> 400, body |-> JsonBody("No files were provided.", <<>>, <<>>)]
      [] ValidationGate(file, "none") # "accepted" ->
             [status |-> 400,
              body |-> JsonBody("", <<[filename |-> file,
                                      errors |-> <<ValidationGate(file, "none")>>]>>, <<>>)]
      [] mode = "bare" ->
             [status |-> 201, body |-> JsonBody("", <<>>, <<BareMeta(nextId)>>)]
      [] mode = "relisted" ->
             [status |-> 201, body |-> JsonBody("", <<>>, <<Meta(nextId), Meta(known)>>)]
      [] OTHER -> [status |-> 201, body |-> JsonBody("", <<>>, <<Meta(nextId)>>)]

Ruling(mode, file) ==
    IF mode \in {"forbidden", "crash", "noFiles"} THEN "failed"
    ELSE IF ValidationGate(file, "none") # "accepted" THEN "rejected"
    ELSE IF mode = "relisted" THEN "relisted"
    ELSE "accepted"

\* The server handles the request of file number i.
ServerHandle(i, mode, known) ==
    /\ items[i].xhr \in {"sent", "abandoned"}
    /\ mode = "relisted" => known \in serverAttachments
    /\ mode # "relisted" => known = 0
    /\ LET stored == Ruling(mode, items[i].file) \in {"accepted", "relisted"}
       IN  /\ serverAttachments' = IF stored THEN serverAttachments \cup {nextId}
                                   ELSE serverAttachments
           /\ objects' = IF stored THEN objects \cup {nextId} ELSE objects
           /\ nextId' = IF stored THEN nextId + 1 ELSE nextId
           /\ items' = [items EXCEPT ![i] =
                  IF @.xhr = "sent"
                  THEN [@ EXCEPT !.xhr = "responded",
                                 !.response = UploadResponse(mode, items[i].file, known),
                                 !.ruling = Ruling(mode, items[i].file)]
                  ELSE [@ EXCEPT !.xhr = "dropped"]]
    /\ UNCHANGED <<viewerVars, docVars, pageVars, siteVars, apiVars, galleryVars, csrfVars, cards,
                   emptyStateHidden, queueHidden,
                   nFiles, pageStart, cardsAtLoad, mergedIds, events>>
    /\ lastEvent' = "server"
    /\ lastItem' = i

\* ------------------------------------------------------------------------
\* Gallery

\* emptyState.hidden as updateEmptyState leaves it for a gallery holding list.
updateEmptyState_Stale(list) == TRUE

updateEmptyState(list) == list # <<>>

RECURSIVE RemoveExisting(_, _)
\* The list without its first card of that id.
RemoveExisting(list, id) ==
    IF list = <<>> THEN <<>>
    ELSE IF Head(list) = id THEN Tail(list)
    ELSE <<Head(list)>> \o RemoveExisting(Tail(list), id)

addAttachmentFromMeta_Replacing(list, meta) == <<meta.id>>

addAttachmentFromMeta_Append(list, meta) == <<meta.id>> \o list

\* The gallery after one metadata record has been merged into list.
addAttachmentFromMeta(list, meta) == <<meta.id>> \o RemoveExisting(list, meta.id)

MergeAll_Skipped(list, attachments) == list

\* renderAttachment adds a delete link to the card.
HasDeleteLink_Unguarded(meta) == meta.delete_url # ""

HasDeleteLink(meta) == canManage /\ meta.delete_url # ""

RECURSIVE MergeLinks(_, _)
\* The cards with a delete link after attachments.forEach(addAttachmentFromMeta).
MergeLinks(links, attachments) ==
    IF attachments = <<>> THEN links
    ELSE LET meta == Head(attachments)
         IN  MergeLinks(IF HasDeleteLink(meta) THEN links \cup {meta.id}
                        ELSE links \ {meta.id},
                        Tail(attachments))

RECURSIVE MergeAll(_, _)
\* attachments.forEach(addAttachmentFromMeta)
MergeAll(list, attachments) ==
    IF attachments = <<>> THEN list
    ELSE MergeAll(addAttachmentFromMeta(list, Head(attachments)), Tail(attachments))

Ids(list) == {list[k] : k \in 1..Len(list)}

RECURSIVE NewestFirst(_)
\* The cards of a served page: the stored attachments, newest first.
NewestFirst(ids) ==
    IF ids = {} THEN <<>>
    ELSE LET newest == CHOOSE a \in ids : \A b \in ids : b <= a
         IN  <<newest>> \o NewestFirst(ids \ {newest})

\* ------------------------------------------------------------------------
\* Upload queue controller

uploadLabels ==
    [uploading |-> "Uploading...", uploaded |-> "Uploaded", failed |-> "Upload failed"]

\* No inline width on the progress bar.
NoWidth == -1

\* getCSRFToken(): the value of the csrftoken cookie, "" without one.
getCSRFToken == cookie

\* buildHeaders(): the request headers; "" stands for a header not set.
buildHeaders ==
    [xRequestedWith |-> "XMLHttpRequest", xCSRFToken |-> csrfToken]

NoHeaders == [xRequestedWith |-> "", xCSRFToken |-> ""]

\* The queue item createQueueItem builds, with the request uploadFile sends.
createQueueItem(name, statusText) ==
    [file |-> name, batch |-> nFiles + 1, headers |-> buildHeaders,
     cookieAtSend |-> cookie, inQueue |-> TRUE, error |-> FALSE, complete |-> FALSE,
     statusText |-> <<statusText>>, progress |-> NoWidth, removal |-> FALSE,
     xhr |-> "sent", loaded |-> 0, response |-> NoResponse, ruling |-> "none"]

NoItem ==
    [file |-> "", batch |-> 0, headers |-> NoHeaders, cookieAtSend |-> "",
     inQueue |-> FALSE, error |-> FALSE, complete |-> FALSE,
     statusText |-> <<>>, progress |-> NoWidth, removal |-> FALSE,
     xhr |-> "unsent", loaded |-> 0, response |-> NoResponse, ruling |-> "none"]

FileNumbers == 1..MaxBatch

\* The file selections a user can make.
Selections(limit) == {<<>>} \cup UNION {[1..n -> FileNames] : n \in 1..limit}

\* The queue item the handlers of request i write to.
queueItem_Shared(i) == nFiles

queueItem(i) == i

QueueChildren(its) == {i \in FileNumbers : its[i].inQueue}

\* A text is the sequence of the parts that ", " separates.
Join(errors) == errors

\* The empty string.
Falsy(text) == text = <<>> \/ text = <<"">>

\* xhr.response under responseType "json": the parsed body, null when the
\* body is empty or does not parse.
xhrResponse(body) == IF body.kind = "json" THEN body ELSE Null

\* Reading xhr.responseText throws unless responseType is "" or "text".
xhrResponseType == "json"
ResponseTextThrows == xhrResponseType \notin {"", "text"}

safeParse(body) == IF body.kind = "json" THEN body ELSE Null

\* The message of the non-2xx branch of the load handler.
FailureMessage(response) ==
    IF response # Null /\ response.error # "" THEN <<response.error>>
    ELSE IF /\ response # Null
            /\ response.errors # <<>>
            /\ ~Falsy(Join(response.errors[1].errors))
    THEN Join(response.errors[1].errors)
    ELSE <<uploadLabels.failed>>

\* The 2xx branch of the load handler on its queue item.
onLoadSuccess_Unscheduled(item) ==
    [item EXCEPT !.error = FALSE, !.complete = TRUE,
                 !.statusText = <<uploadLabels.uploaded>>, !.progress = 100]

onLoadSuccess(item) ==
    [item EXCEPT !.error = FALSE, !.complete = TRUE,
                 !.statusText = <<uploadLabels.uploaded>>, !.progress = 100,
                 !.removal = TRUE]

\* The other branch of the load handler on its queue item.
onLoadFailure_Completing(item, response) ==
    [item EXCEPT !.error = TRUE, !.complete = TRUE,
                 !.statusText = FailureMessage(response), !.progress = 100]

onLoadFailure_Scheduled(item, response) ==
    [item EXCEPT !.error = TRUE, !.statusText = FailureMessage(response),
                 !.progress = 100, !.removal = TRUE]

onLoadFailure(item, response) ==
    [item EXCEPT !.error = TRUE, !.statusText = FailureMessage(response),
                 !.progress = 100]

\* The error handler on its queue item.
onErrorItem_Scheduled(item) ==
    [item EXCEPT !.error = TRUE, !.statusText = <<uploadLabels.failed>>,
                 !.progress = 100, !.removal = TRUE]

onErrorItem(item) ==
    [item EXCEPT !.error = TRUE, !.statusText = <<uploadLabels.failed>>,
                 !.progress = 100]

\* !input.files || !input.files.length
NoFiles_Ignored(files) == FALSE

NoFiles(files) == files = <<>>

\* input "change"
onInputChange(files, limit) ==
    /\ lastEvent' = IF files = <<>> THEN "emptyChange" ELSE "change"
    /\ lastItem' = 0
    /\ IF NoFiles(files)
       THEN UNCHANGED <<viewerVars, docVars, pageVars,
                        siteVars, apiVars, objects, galleryVars, csrfVars, cards,
                        emptyStateHidden, queueHidden, items, nFiles,
                        serverAttachments, nextId, pageStart, cardsAtLoad, mergedIds,
                        events>>
       ELSE /\ nFiles + Len(files) <= limit
            /\ items' = [i \in FileNumbers |->
                   IF i > nFiles /\ i <= nFiles + Len(files)
                   THEN createQueueItem(files[i - nFiles], uploadLabels.uploading)
                   ELSE items[i]]
            /\ nFiles' = nFiles + Len(files)
            /\ queueHidden' = FALSE
            /\ UNCHANGED <<viewerVars, docVars, pageVars,
                           siteVars, apiVars, objects, galleryVars, csrfVars, cards,
                           emptyStateHidden,
                           serverAttachments, nextId, pageStart, cardsAtLoad, mergedIds,
                           events>>

Percent_OfRemaining(loaded, total) == (200 * (total - loaded) + total) \div (2 * total)

\* Math.round(loaded / total * 100)
Percent(loaded, total) == (200 * loaded + total) \div (2 * total)

ProgressEvents == {<<1, 3>>, <<3, 3>>}

\* xhr.upload "progress" of request i: event.loaded is the number of bytes
\* the transport has sent, which does not go down during one request.
onProgress(i, loaded, total) ==
    /\ items[i].xhr = "sent"
    /\ items[i].loaded <= loaded
    /\ items' = [[items EXCEPT ![i].loaded = loaded]
                    EXCEPT ![queueItem(i)].progress = Percent(loaded, total)]
    /\ lastEvent' = "progress"
    /\ lastItem' = i
    /\ UNCHANGED <<viewerVars, docVars, pageVars,
                   siteVars, apiVars, objects, galleryVars, csrfVars, cards,
                   emptyStateHidden, queueHidden,
                   nFiles, serverAttachments, nextId, pageStart, cardsAtLoad, mergedIds,
                   events>>

\* xhr "load" of request i
onLoad(i) ==
    /\ items[i].xhr = "responded"
    /\ lastEvent' = "load"
    /\ lastItem' = i
    /\ LET status == items[i].response.status
           body == items[i].response.body
           settled == [items EXCEPT ![i].xhr = "settled", ![i].loaded = 0]
       IN  IF xhrResponse(body) = Null /\ ResponseTextThrows
           THEN \* the handler ends with an exception at line 817
                /\ items' = settled
                /\ UNCHANGED <<cards, emptyStateHidden, mergedIds, deleteLinks>>
           ELSE LET response == IF xhrResponse(body) # Null THEN xhrResponse(body)
                                ELSE safeParse(body)
                IN  IF status >= 200 /\ status < 300
                    THEN /\ items' = [settled EXCEPT ![queueItem(i)] = onLoadSuccess(@)]
                         /\ cards' = MergeAll(cards, response.attachments)
                         /\ emptyStateHidden' =
                                IF response.attachments = <<>> THEN emptyStateHidden
                                ELSE updateEmptyState(cards')
                         /\ deleteLinks' = MergeLinks(deleteLinks, response.attachments)
                         /\ mergedIds' = mergedIds \cup
                                {response.attachments[k].id :
                                    k \in 1..Len(response.attachments)}
                    ELSE /\ items' = [settled EXCEPT ![queueItem(i)] =
                                onLoadFailure(@, response)]
                         /\ UNCHANGED <<cards, emptyStateHidden, mergedIds, deleteLinks>>
    /\ UNCHANGED <<viewerVars, docVars, pageVars,
                   siteVars, apiVars, objects, canManage, deleteConfirmed, csrfVars,
                   queueHidden, nFiles, serverAttachments, nextId, pageStart,
                   cardsAtLoad, events>>

\* xhr "error" of request i
onError(i) ==
    /\ items[i].xhr \in {"sent", "responded"}
    /\ items' = [[items EXCEPT ![i].xhr = "settled", ![i].loaded = 0,
                                ![i].ruling = "lost"]
                    EXCEPT ![queueItem(i)] = onErrorItem(@)]
    /\ lastEvent' = "error"
    /\ lastItem' = i
    /\ UNCHANGED <<viewerVars, docVars, pageVars,
                   siteVars, apiVars, objects, galleryVars, csrfVars, cards,
                   emptyStateHidden, queueHidden,
                   nFiles, serverAttachments, nextId, pageStart, cardsAtLoad, mergedIds,
                   events>>

\* The timeout scheduleQueueRemoval set for item i fires.
onRemovalTimeout(i) ==
    /\ items[i].removal
    /\ items' = [items EXCEPT ![i].removal = FALSE, ![i].inQueue = FALSE]
    /\ queueHidden' = IF QueueChildren(items') = {} THEN TRUE ELSE queueHidden
    /\ lastEvent' = "timeout"
    /\ lastItem' = i
    /\ UNCHANGED <<viewerVars, docVars, pageVars,
                   siteVars, apiVars, objects, galleryVars, csrfVars, cards,
                   emptyStateHidden, nFiles,
                   serverAttachments, nextId, pageStart, cardsAtLoad, mergedIds, events>>

\* The page as the server renders it and the script initialises it; the
\* requests and timers of the page that was left are gone.
LoadPage(stored) ==
    /\ cards' = NewestFirst(stored)
    /\ emptyStateHidden' = updateEmptyState(cards')
    /\ queueHidden' \in BOOLEAN
    /\ items' = [i \in FileNumbers |->
           IF i > nFiles THEN items[i]
           ELSE [items[i] EXCEPT !.inQueue = FALSE, !.removal = FALSE,
                                 !.xhr = CASE @ = "sent" -> "abandoned"
                                           [] @ = "responded" -> "dropped"
                                           [] OTHER -> @]]
    /\ pageStart' = nFiles
    /\ cardsAtLoad' = cards'
    /\ mergedIds' = {}
    /\ deleteLinks' = IF canManage THEN stored ELSE {}
    /\ csrfToken' = getCSRFToken

\* The delete action of a card the server rendered asks for confirmation
\* first; the link renderAttachment builds is a plain link and does not.
AsksConfirmation(id) == id \notin mergedIds

DeleteAnswers == {"accept", "decline"}
DeleteOutcomes == {"deleted", "refused"}

\* Activating the delete action of a card.  A declined confirmation sends
\* nothing.  Otherwise the request leaves the page; the server removes the
\* attachment, or refuses, and the page is served again.
DeleteAttachment(id, answer, outcome) ==
    /\ id \in Ids(cards)
    /\ id \in deleteLinks
    /\ overlay # "active" /\ docOverlay # "active"
    /\ lastItem' = 0
    /\ IF AsksConfirmation(id) /\ answer = "decline"
       THEN /\ lastEvent' = "deleteDeclined"
            /\ UNCHANGED <<viewerVars, docVars, pageVars, siteVars, apiVars, canManage, deleteLinks,
                           deleteConfirmed, csrfVars, cards, emptyStateHidden,
                           queueHidden, items, nFiles, serverAttachments, nextId,
                           objects, pageStart, cardsAtLoad, mergedIds, events>>
       ELSE /\ deleteConfirmed' = AsksConfirmation(id)
            /\ serverAttachments' = IF outcome = "deleted"
                                    THEN serverAttachments \ {id}
                                    ELSE serverAttachments
            /\ objects' = IF outcome = "deleted" THEN objects \ {id} ELSE objects
            /\ LoadPage(serverAttachments')
            /\ lastEvent' = IF outcome = "deleted" THEN "delete" ELSE "deleteFailed"
            /\ UNCHANGED <<viewerVars, docVars, pageVars,
                           siteVars, apiVars, canManage, cookie, nFiles,
                           nextId, events>>

\* The csrftoken cookie is set, rotated or dropped.
CookieValues == {"", "tokenA", "tokenB"}

SetCookie(value) ==
    /\ value # cookie
    /\ cookie' = value
    /\ lastEvent' = "cookie"
    /\ lastItem' = 0
    /\ UNCHANGED <<viewerVars, docVars, pageVars, siteVars, apiVars, galleryVars, csrfToken, cards,
                   emptyStateHidden, queueHidden, items, nFiles, serverAttachments,
                   nextId, objects, pageStart, cardsAtLoad, mergedIds, events>>

\* ------------------------------------------------------------------------
\* Server: the attachment API as any caller sees it

NoCall == [op |-> "none", files |-> <<>>, handler |-> "none", id |-> 0, fault |-> "none"]
NoReply == [status |-> 0, attachments |-> <<>>, errors |-> <<>>, list |-> <<>>]

\* The requests an API caller can make.
Requests == UNION {[1..n -> CandidateFiles] : n \in 1..MaxRequestFiles}

\* Upload: each file is validated on its own; an accepted file is persisted
\* under the next id, a rejected file is reported with its reason.
RECURSIVE StoreAll(_, _, _)
StoreAll(files, handler, id) ==
    IF files = <<>> THEN [attachments |-> <<>>, errors |-> <<>>]
    ELSE LET ruling == ValidationGate(Head(files), handler)
             rest == StoreAll(Tail(files), handler,
                              IF ruling = "accepted" THEN id + 1 ELSE id)
         IN  IF ruling = "accepted"
             THEN [attachments |-> <<[id |-> id, name |-> Head(files)]>> \o rest.attachments,
                   errors |-> rest.errors]
             ELSE [attachments |-> rest.attachments,
                   errors |-> <<[filename |-> Head(files), errors |-> <<ruling>>]>>
                              \o rest.errors]

\* POST attachments/
ApiUpload(files, handler) ==
    LET result == StoreAll(files, handler, nextId)
        ids == {result.attachments[k].id : k \in 1..Len(result.attachments)}
    IN  /\ nextId + Len(result.attachments) <= MaxStored + 1
        /\ serverAttachments' = serverAttachments \cup ids
        /\ objects' = objects \cup ids
        /\ nextId' = nextId + Len(result.attachments)
        /\ apiCall' = [op |-> "upload", files |-> files, handler |-> handler,
                       id |-> 0, fault |-> "none"]
        /\ apiReply' = [status |-> IF result.attachments = <<>> THEN 400 ELSE 201,
                        attachments |-> result.attachments,
                        errors |-> result.errors, list |-> <<>>]
        /\ lastEvent' = "apiUpload"
        /\ lastItem' = 0
        /\ UNCHANGED <<viewerVars, docVars, pageVars, siteVars, galleryVars, csrfVars, cards,
                       emptyStateHidden, queueHidden, items, nFiles, pageStart,
                       cardsAtLoad, mergedIds, events>>

\* What can go wrong in a delete.
DeleteFaults == {"none", "forbidden", "storage", "metadata"}

\* Delete: the storage object first, the metadata record only after that
\* succeeded; a failure of either is reported.
DeleteResult_Swallowed(id, fault) ==
    CASE id \notin serverAttachments -> [status |-> 404, object |-> FALSE, record |-> FALSE]
      [] fault = "forbidden" -> [status |-> 403, object |-> FALSE, record |-> FALSE]
      [] fault = "storage" -> [status |-> 500, object |-> FALSE, record |-> FALSE]
      [] fault = "metadata" -> [status |-> 204, object |-> TRUE, record |-> FALSE]
      [] OTHER -> [status |-> 204, object |-> TRUE, record |-> TRUE]

DeleteResult(id, fault) ==
    CASE id \notin serverAttachments -> [status |-> 404, object |-> FALSE, record |-> FALSE]
      [] fault = "forbidden" -> [status |-> 403, object |-> FALSE, record |-> FALSE]
      [] fault = "storage" -> [status |-> 500, object |-> FALSE, record |-> FALSE]
      [] fault = "metadata" -> [status |-> 500, object |-> TRUE, record |-> FALSE]
      [] OTHER -> [status |-> 204, object |-> TRUE, record |-> TRUE]

\* DELETE attachments/<id>/
ApiDelete(id, fault) ==
    LET result == DeleteResult(id, fault)
    IN  /\ objects' = IF result.object THEN objects \ {id} ELSE objects
        /\ serverAttachments' = IF result.record THEN serverAttachments \ {id}
                                ELSE serverAttachments
        /\ apiCall' = [op |-> "delete", files |-> <<>>, handler |-> "none",
                       id |-> id, fault |-> fault]
        /\ apiReply' = [status |-> result.status, attachments |-> <<>>,
                        errors |-> <<>>, list |-> <<>>]
        /\ lastEvent' = "apiDelete"
        /\ lastItem' = 0
        /\ UNCHANGED <<viewerVars, docVars, pageVars, siteVars, galleryVars, csrfVars, cards,
                       emptyStateHidden, queueHidden, items, nFiles, nextId, pageStart,
                       cardsAtLoad, mergedIds, events>>

\* GET attachments/
ApiList ==
    /\ apiCall' = [op |-> "list", files |-> <<>>, handler |-> "none",
                   id |-> 0, fault |-> "none"]
    /\ apiReply' = [status |-> 200, attachments |-> <<>>, errors |-> <<>>,
                    list |-> NewestFirst(serverAttachments)]
    /\ lastEvent' = "apiList"
    /\ lastItem' = 0
    /\ UNCHANGED <<viewerVars, docVars, pageVars, siteVars, galleryVars, csrfVars, cards,
                   emptyStateHidden, queueHidden, items, nFiles, serverAttachments,
                   nextId, objects, pageStart, cardsAtLoad, mergedIds, events>>

\* ------------------------------------------------------------------------
\* Unit-selection widget

\* The buildings of the building field and the units the API lists for them.
Buildings == {"b1", "b2", "b3"}

Units(buildingId) ==
    CASE buildingId = "b1" -> <<"u11", "u12">>
      [] buildingId = "b2" -> <<"u21">>
      [] OTHER -> <<>>

UnitIds == {"u11", "u12", "u21"}

EmptyLabel == "---------"
LoadingText == "Loading..."
FailedLabel == "-"

RequestNumbers == 1..MaxUnitRequests

NoUnitRequest == [building |-> "", selectedId |-> "", stage |-> "none"]

\* The select as the server renders it, before the script runs.
ServedUnitField ==
    [options |-> <<"">>, placeholder |-> EmptyLabel, value |-> "", disabled |-> FALSE,
     ariaDisabled |-> "absent", ariaBusy |-> "absent"]

\* String(disabled)
String(flag) == IF flag THEN "true" ELSE "false"

\* setDisabledState(disabled, message): the select afterwards.
setDisabledState(disabled, message) ==
    [options |-> <<"">>, placeholder |-> message, value |-> "", disabled |-> disabled,
     ariaDisabled |-> String(disabled), ariaBusy |-> String(disabled)]

\* The try block of populateUnits after response.json() resolved with data.
Populated(data, selectedId) ==
    [options |-> <<"">> \o data,
     placeholder |-> "---------",
     value |-> IF \E k \in 1..Len(data) : data[k] = selectedId THEN selectedId ELSE "",
     disabled |-> (Len(data) = 0),
     ariaDisabled |-> String(Len(data) = 0),
     ariaBusy |-> unitField.ariaBusy]

\* finally { unitField.removeAttribute("aria-busy") }
Finally(field) == [field EXCEPT !.ariaBusy = "absent"]

\* populateUnits(buildingId, selectedId) up to its first await.
populateUnits(buildingId, selectedId) ==
    IF buildingId = ""
    THEN /\ unitField' = setDisabledState(TRUE, EmptyLabel)
         /\ UNCHANGED <<unitRequests, nRequests>>
    ELSE /\ nRequests < MaxUnitRequests
         /\ unitField' = setDisabledState(TRUE, LoadingText)
         /\ nRequests' = nRequests + 1
         /\ unitRequests' = [unitRequests EXCEPT ![nRequests + 1] =
                [building |-> buildingId, selectedId |-> selectedId,
                 stage |-> "fetching"]]

\* initUnitsWidget() on a page that has the widget.
initUnitsWidget(initialBuilding, selectedUnit) ==
    /\ ~widgetReady
    /\ widgetReady' = TRUE
    /\ buildingValue' = initialBuilding
    /\ populateUnits(initialBuilding, selectedUnit)
    /\ lastEvent' = "initUnitsWidget"
    /\ UNCHANGED <<viewerVars, docVars, pageVars, attachmentVars, loginVars, events>>

\* "change" of the building field
onBuildingChange(value) ==
    /\ widgetReady
    /\ value # buildingValue
    /\ buildingValue' = value
    /\ populateUnits(value, "")
    /\ lastEvent' = "buildingChange"
    /\ UNCHANGED <<viewerVars, docVars, pageVars, attachmentVars, loginVars,
                   widgetReady, events>>

FetchOutcomes == {"ok", "notOk", "networkError"}

\* The fetch of request r settles: populateUnits resumes after its first
\* await, and waits for response.json() when the response is ok.
onFetchSettled(r, outcome) ==
    /\ unitRequests[r].stage = "fetching"
    /\ IF outcome = "ok"
       THEN /\ unitRequests' = [unitRequests EXCEPT ![r].stage = "parsing"]
            /\ UNCHANGED unitField
       ELSE /\ unitRequests' = [unitRequests EXCEPT ![r].stage = "failed"]
            /\ unitField' = Finally(setDisabledState(TRUE, FailedLabel))
    /\ lastEvent' = "fetchSettled"
    /\ UNCHANGED <<viewerVars, docVars, pageVars, attachmentVars, loginVars,
                   widgetReady, buildingValue, nRequests, events>>

JsonOutcomes == {"parsed", "invalid"}

\* response.json() of request r settles: populateUnits runs to its end.
onJsonSettled(r, outcome) ==
    /\ unitRequests[r].stage = "parsing"
    /\ IF outcome = "parsed"
       THEN /\ unitRequests' = [unitRequests EXCEPT ![r].stage = "done"]
            /\ unitField' = Finally(Populated(Units(unitRequests[r].building),
                                              unitRequests[r].selectedId))
       ELSE /\ unitRequests' = [unitRequests EXCEPT ![r].stage = "failed"]
            /\ unitField' = Finally(setDisabledState(TRUE, FailedLabel))
    /\ lastEvent' = "jsonSettled"
    /\ UNCHANGED <<viewerVars, docVars, pageVars, attachmentVars, loginVars,
                   widgetReady, buildingValue, nRequests, events>>

\* ------------------------------------------------------------------------
\* Playwright login helper

USER_ENV == "PLAYWRIGHT_USERNAME"
PASS_ENV == "PLAYWRIGHT_PASSWORD"
DEFAULT_USER == "mdonev"
DEFAULT_PASS == "qwerty123"

\* Unset variables, and no credentials submitted.
NoCredentials == [user |-> "", pass |-> ""]

\* The user the seed command creates.
SeedUser == [user |-> "playwright", pass |-> "playwright123"]

\* The accounts of the instance under test.
Accounts == {SeedUser, [user |-> "your_admin", pass |-> "secret"]}

\* What a variable can be set to, in the shell or in a dotenv file.
UserSettings == {"", "your_admin", "playwright"}
PassSettings == {"", "secret", "playwright123"}

\* dotenv.config: a variable of the file is set unless the process has it.
dotenvConfig(env, file) ==
    [user |-> IF env.user = "" THEN file.user ELSE env.user,
     pass |-> IF env.pass = "" THEN file.pass ELSE env.pass]

\* ensurePlaywrightEnv(): the environment after the call.
ensurePlaywrightEnv(file) ==
    IF envLoaded THEN processEnv ELSE dotenvConfig(processEnv, file)

\* process.env[name] || fallback
OrDefault(value, fallback) == IF value = "" THEN fallback ELSE value

\* export PLAYWRIGHT_USERNAME=... PLAYWRIGHT_PASSWORD=... before the run
ExportCredentials(user, pass) ==
    /\ ~envLoaded
    /\ processEnv = NoCredentials
    /\ processEnv' = [user |-> user, pass |-> pass]
    /\ processEnv' # processEnv
    /\ lastEvent' = "export"
    /\ UNCHANGED <<viewerVars, docVars, pageVars, cards, emptyStateHidden, queueHidden,
                   items, nFiles, serverAttachments, nextId, pageStart, cardsAtLoad,
                   mergedIds, lastItem, galleryVars, csrfVars, objects, apiVars,
                   envLoaded, submitted, helperResult, signedIn, unitsVars, events>>

\* The next test starts in a fresh browser context.
NewContext ==
    /\ envLoaded
    /\ lastEvent' = "newContext"
    /\ signedIn' = FALSE
    /\ submitted' = NoCredentials
    /\ helperResult' = "none"
    /\ UNCHANGED <<viewerVars, docVars, pageVars, cards, emptyStateHidden, queueHidden,
                   items, nFiles, serverAttachments, nextId, pageStart, cardsAtLoad,
                   mergedIds, lastItem, galleryVars, csrfVars, objects, apiVars,
                   processEnv, envLoaded, unitsVars, events>>

\* The pages a test asks the helper for.
Destinations == {"/", "/login/"}

\* The page shows the sign-in heading or has /login in its URL: the login
\* page itself, or any page asked for without a session.
LoginPage(destination) == destination = "/login/" \/ ~signedIn

\* loginIfNeeded(page, {destination})
loginIfNeeded(destination, file) ==
    LET env == ensurePlaywrightEnv(file)
        credentials == [user |-> OrDefault(env.user, DEFAULT_USER),
                        pass |-> OrDefault(env.pass, DEFAULT_PASS)]
    IN  /\ events < MaxEvents
        /\ events' = events + 1
        /\ processEnv' = env
        /\ envLoaded' = TRUE
        /\ IF ~LoginPage(destination)
           THEN /\ submitted' = NoCredentials
                /\ helperResult' = "returned"
                /\ signedIn' = signedIn
           ELSE /\ submitted' = credentials
                /\ signedIn' = (credentials \in Accounts)
                /\ helperResult' = IF credentials \in Accounts THEN "returned"
                                   ELSE "stillOnLogin"
        /\ lastEvent' = "loginIfNeeded"
        /\ UNCHANGED <<viewerVars, docVars, pageVars, cards, emptyStateHidden,
                       queueHidden, items, nFiles, serverAttachments, nextId, pageStart,
                       cardsAtLoad, mergedIds, lastItem, galleryVars, csrfVars, objects,
                       apiVars, unitsVars>>

\* ------------------------------------------------------------------------
\* The state after the script has run on a freshly loaded page.
Init ==
    /\ overlay = "undefined"
    /\ overlayElements = 0
    /\ overlayImageSrc = ""
    /\ overlaySpinnerHidden = FALSE
    /\ lastActiveTrigger = "null"
    /\ initialBodyOverflow = "null"
    /\ keydownListeners = <<>>
    /\ pointers = [id \in PointerIds |-> NoPointer]
    /\ scale = MIN_SCALE
    /\ panX = 0
    /\ panY = 0
    /\ isDragging = FALSE
    /\ dragStartX = 0
    /\ dragStartY = 0
    /\ initialPinchDistance = 0
    /\ pinchStartScale = MIN_SCALE
    /\ docOverlay = "undefined"
    /\ docOverlayElements = 0
    /\ docFrameSrc = ""
    /\ docSpinnerHidden = FALSE
    /\ framePending = {}
    /\ imagePending = {}
    /\ lastActiveDocTrigger = "null"
    /\ pageOverflow \in PageOverflows
    /\ bodyOverflow = pageOverflow
    /\ focus = "body"
    /\ events = 0
    /\ lastEvent = "none"
    /\ serverAttachments \in InitialAttachments
    /\ nextId = Cardinality(serverAttachments) + 1
    /\ objects = serverAttachments
    /\ apiCall = NoCall
    /\ processEnv = NoCredentials
    /\ envLoaded = FALSE
    /\ submitted = NoCredentials
    /\ helperResult = "none"
    /\ signedIn = FALSE
    /\ widgetReady = FALSE
    /\ buildingValue = ""
    /\ unitField = ServedUnitField
    /\ unitRequests = [r \in RequestNumbers |-> NoUnitRequest]
    /\ nRequests = 0
    /\ apiReply = NoReply
    /\ cards = NewestFirst(serverAttachments)
    /\ emptyStateHidden = updateEmptyState(cards)
    /\ queueHidden \in BOOLEAN
    /\ items = [i \in FileNumbers |-> NoItem]
    /\ nFiles = 0
    /\ pageStart = 0
    /\ cardsAtLoad = cards
    /\ mergedIds = {}
    /\ lastItem = 0
    /\ canManage \in BOOLEAN
    /\ deleteLinks = IF canManage THEN serverAttachments ELSE {}
    /\ deleteConfirmed = TRUE
    /\ cookie \in CookieValues
    /\ csrfToken = getCSRFToken

\* A manager's page with the csrftoken cookie set.
InitManager == Init /\ canManage /\ cookie = "tokenA"

\* A page of one stored attachment whose queue is served hidden.
InitViewer == InitManager /\ serverAttachments = {1} /\ queueHidden

\* The lightbox: every event it handles.
NextViewer ==
    \/ \E trigger \in ViewerTriggers : onAttachmentsClick(trigger)
    \/ \E action \in OverlayActions : onOverlayClick(action)
    \/ \E key \in Keys : KeyDown(key)
    \/ \E deltaY \in WheelDeltas, offset \in WheelOffsets : onWheel(deltaY, offset)
    \/ \E id \in PointerIds, pos \in Positions : onPointerDown(id, pos)
    \/ \E id \in PointerIds, pos \in Positions : onPointerMove(id, pos)
    \/ \E id \in PointerIds : onPointerUp(id)

SpecViewer == InitViewer /\ [][NextViewer]_vars

\* Opening and closing the lightbox and the preview modal.
NextModals ==
    \/ \E target \in ViewerTriggers \cup PreviewTriggers : onAttachmentsClick(target)
    \/ \E action \in OverlayActions : onOverlayClick(action)
    \/ \E action \in {"close", "open"} : onDocOverlayClick(action)
    \/ \E key \in Keys : KeyDown(key)
    \/ \E kind \in {"load", "error"}, cause \in {"request", "clearing"} :
           onImageEvent(kind, cause)
    \/ \E cause \in {"request", "blank"} : onFrameLoad(cause)

SpecModals == InitViewer /\ [][NextModals]_vars

\* A page whose body scrolls as the browser decides.
InitUpload == InitManager /\ pageOverflow = ""

\* The uploader, the server and the gallery.
NextUpload ==
    \/ \E files \in Selections(MaxFiles) : onInputChange(files, MaxFiles)
    \/ \E i \in FileNumbers, ev \in ProgressEvents : onProgress(i, ev[1], ev[2])
    \/ \E i \in FileNumbers, mode \in ServerModes, known \in 0..MaxBatch :
           ServerHandle(i, mode, known)
    \/ \E i \in FileNumbers : onLoad(i)
    \/ \E i \in FileNumbers : onError(i)
    \/ \E i \in FileNumbers : onRemovalTimeout(i)
    \/ \E id \in 1..MaxBatch : DeleteAttachment(id, "accept", "deleted")

SpecUpload == InitUpload /\ [][NextUpload]_vars

\* One batch after another against a server that answers every request with
\* its ruling on the file.
NextBatch ==
    \/ \E files \in Selections(MaxBatch) : onInputChange(files, MaxBatch)
    \/ \E i \in FileNumbers, ev \in ProgressEvents : onProgress(i, ev[1], ev[2])
    \/ \E i \in FileNumbers : ServerHandle(i, "normal", 0)
    \/ \E i \in FileNumbers : onLoad(i)
    \/ \E i \in FileNumbers : onRemovalTimeout(i)

SpecBatch == InitUpload /\ [][NextBatch]_vars

\* A page with or without the manage capability.
InitGallery == Init /\ pageOverflow = "" /\ cookie = "tokenA"

\* Responses the upload endpoint gives to a file it stores.
GalleryModes == {"normal", "bare", "relisted"}

\* Uploads that fill the gallery, and the delete actions of its cards.
NextGallery ==
    \/ \E files \in Selections(MaxFiles) : onInputChange(files, MaxFiles)
    \/ \E i \in FileNumbers, mode \in GalleryModes, known \in 0..MaxBatch :
           ServerHandle(i, mode, known)
    \/ \E i \in FileNumbers : onLoad(i)
    \/ \E id \in 1..MaxBatch, answer \in DeleteAnswers, outcome \in DeleteOutcomes :
           DeleteAttachment(id, answer, outcome)

SpecGallery == InitGallery /\ [][NextGallery]_vars

\* A page loaded with any csrftoken cookie, or none.
InitHeaders == Init /\ canManage /\ pageOverflow = "" /\ serverAttachments = {}

\* What the server answers to a request with or without a valid token.
HeaderModes == {"normal", "forbidden"}

\* Uploads on a page whose csrftoken cookie the server may set or rotate.
NextHeaders ==
    \/ \E value \in CookieValues : SetCookie(value)
    \/ \E files \in Selections(MaxFiles) : onInputChange(files, MaxFiles)
    \/ \E i \in FileNumbers, mode \in HeaderModes : ServerHandle(i, mode, 0)
    \/ \E i \in FileNumbers : onLoad(i)

SpecHeaders == InitHeaders /\ [][NextHeaders]_vars

\* A work order without attachments.
InitServer == InitManager /\ pageOverflow = "" /\ serverAttachments = {} /\ queueHidden

\* The attachment API under any sequence of calls.
NextServer ==
    \/ \E files \in Requests, handler \in ScanHandlers : ApiUpload(files, handler)
    \/ \E id \in 1..MaxStored, fault \in DeleteFaults : ApiDelete(id, fault)
    \/ ApiList

SpecServer == InitServer /\ [][NextServer]_vars

\* A test run against a seeded instance.
InitLogin == InitServer

DotenvFiles == [user : UserSettings, pass : PassSettings]

\* The test runner: the shell may export credentials, then tests call the
\* helper; the dotenv files hold any setting or none.
NextLogin ==
    \/ \E user \in UserSettings, pass \in PassSettings : ExportCredentials(user, pass)
    \/ \E destination \in Destinations, file \in DotenvFiles :
           loginIfNeeded(destination, file)
    \/ NewContext

SpecLogin == InitLogin /\ [][NextLogin]_vars

\* A form page with the unit widget, before its script has run.
InitUnits == InitServer

\* The unit widget: the initial load, building changes, and the responses
\* in any order.
NextUnits ==
    \/ \E initialBuilding \in Buildings \cup {""}, selectedUnit \in {"", "u12"} :
           initUnitsWidget(initialBuilding, selectedUnit)
    \/ \E value \in Buildings \cup {""} : onBuildingChange(value)
    \/ \E r \in RequestNumbers, outcome \in FetchOutcomes : onFetchSettled(r, outcome)
    \/ \E r \in RequestNumbers, outcome \in JsonOutcomes : onJsonSettled(r, outcome)

SpecUnits == InitUnits /\ [][NextUnits]_vars

\* A timeout that is set fires.
FairSpecUpload ==
    SpecUpload /\ \A i \in FileNumbers : WF_vars(onRemovalTimeout(i))

\* ------------------------------------------------------------------------
\* Claims

\* C1: whatever the sequence of lightbox operations (open, close, toolbar and
\* keyboard zoom, wheel, pointer down/move/up with pinch, reset), scale stays
\* within [1.0, 5.0], and right after a reset scale = 1 and pan = (0, 0).
C1_ScaleInRange ==
    /\ MIN_SCALE <= scale /\ scale <= MAX_SCALE
    /\ lastEvent = "resetTransform" => scale = MIN_SCALE /\ panX = 0 /\ panY = 0

\* A pinch whose ratio asks for more than 5.0 has just been clamped.
C1_Witness ==
    /\ lastEvent = "onPointerMove"
    /\ Cardinality(ActivePointers) = 2
    /\ initialPinchDistance > 0
    /\ \E i, j \in ActivePointers :
          /\ i # j
          /\ pinchStartScale * distanceBetween(pointers[i], pointers[j])
               > MAX_SCALE * initialPinchDistance
    /\ scale = MAX_SCALE

\* The files handed to the uploader since the page was loaded.
PageItems == {i \in FileNumbers : pageStart < i /\ i <= nFiles}

InDom(i) == items[i].inQueue

Terminal(i) == items[i].complete \/ items[i].error

\* The step left the page.
PageLeft == lastEvent' \in {"delete", "deleteFailed"}

\* C2: once the page is initialised, and after every merge of an upload
\* response and every deletion, exactly one of "the gallery holds a card"
\* and "the empty-state placeholder is visible" is true.
C2_EmptyStateOrCards == (cards # <<>>) # (~emptyStateHidden)

\* A first card has been merged into a gallery that was served empty.
C2_Witness ==
    /\ cardsAtLoad = <<>>
    /\ lastEvent = "load"
    /\ mergedIds # {}
    /\ cards # <<>>
    /\ emptyStateHidden

\* C3: a request that ended with a status outside 200-299, or with a network
\* error, has its queue item in the error status with a non-empty message,
\* whatever the body of the response was.
C3_FailureShown ==
    \A i \in PageItems :
        (/\ items[i].xhr = "settled"
         /\ \/ items[i].ruling = "lost"
            \/ items[i].response.status < 200
            \/ items[i].response.status >= 300)
        => items[i].error /\ ~Falsy(items[i].statusText)

\* C4: once every request of the page has settled with the server's ruling
\* on its file, the gallery has gained one card per accepted file and the
\* queue holds one error item per rejected file, and no accepted file is
\* shown as an error.
C4_CardPerAcceptedFile ==
    (/\ PageItems # {}
     /\ \A i \in PageItems : /\ items[i].xhr = "settled"
                             /\ items[i].ruling \in {"accepted", "rejected"})
    => LET accepted == {i \in PageItems : items[i].ruling = "accepted"}
           rejected == {i \in PageItems : items[i].ruling = "rejected"}
       IN  /\ Len(cards) = Len(cardsAtLoad) + Cardinality(accepted)
           /\ Cardinality(mergedIds) = Cardinality(accepted)
           /\ mergedIds \subseteq Ids(cards)
           /\ {i \in PageItems : InDom(i) /\ items[i].error} = rejected
           /\ \A i \in accepted : items[i].complete /\ ~items[i].error

\* Three files selected together, the second of them oversized, have all
\* settled: two new cards and one error item.
C4_Witness ==
    /\ PageItems = {1, 2, 3}
    /\ \A i \in PageItems : items[i].batch = 1 /\ items[i].xhr = "settled"
    /\ items[1].ruling = "accepted"
    /\ items[2].file = "huge.png" /\ items[2].ruling = "rejected"
    /\ items[3].ruling = "accepted"
    /\ Len(cards) = Len(cardsAtLoad) + 2
    /\ {i \in PageItems : InDom(i) /\ items[i].error} = {2}

\* C5: a merge is an upsert by id. No two cards share an id, the gallery
\* holds one card per id that was served or merged, and right after a merge
\* the card merged last is the first card.
C5_UpsertById ==
    /\ \A a, b \in 1..Len(cards) : a # b => cards[a] # cards[b]
    /\ Len(cards) = Cardinality(Ids(cardsAtLoad) \cup mergedIds)
    /\ (lastEvent = "load" /\ items[lastItem].complete)
       => LET attachments == items[lastItem].response.body.attachments
          IN  attachments # <<>> => cards[1] = attachments[Len(attachments)].id

\* A response listing an id whose card was served with the page was merged:
\* the card moved to the front and the gallery grew by the new card only.
C5_Witness ==
    /\ lastEvent = "load"
    /\ items[lastItem].complete
    /\ LET attachments == items[lastItem].response.body.attachments
       IN  /\ Len(attachments) = 2
           /\ attachments[2].id \in Ids(cardsAtLoad)
           /\ cards[1] = attachments[2].id
           /\ Len(cards) = Len(cardsAtLoad) + 1

\* C6: a selection of N files adds N queue items whose requests are all in
\* flight when the change handler returns, and a progress, load or error
\* event of one request changes no queue item but its own.
C6_IndependentRequests ==
    [][/\ nFiles' > nFiles =>
            /\ \A i \in (nFiles + 1)..nFiles' :
                   /\ items'[i].xhr = "sent"
                   /\ items'[i].inQueue
                   /\ ~items'[i].complete /\ ~items'[i].error
                   /\ items'[i].statusText = <<uploadLabels.uploading>>
            /\ Cardinality(QueueChildren(items'))
                 = Cardinality(QueueChildren(items)) + (nFiles' - nFiles)
       /\ lastEvent' \in {"progress", "load", "error"} =>
            \A j \in FileNumbers \ {lastItem'} : items'[j] = items[j]]_vars

\* Of two files selected together the second has completed while the
\* request of the first is still in flight.
C6_Witness ==
    /\ nFiles = 2
    /\ items[1].batch = 1 /\ items[2].batch = 1
    /\ lastEvent = "load" /\ lastItem = 2
    /\ items[2].complete
    /\ items[1].xhr = "sent"
    /\ items[1].statusText = <<uploadLabels.uploading>>
    /\ ~items[1].complete /\ ~items[1].error

\* C7: while the page lives, an item in the error status stays in the queue,
\* stays in the error status and keeps its message; the queue is visible
\* while it holds an error item.
C7_ErrorItemPersists ==
    /\ [](\A i \in FileNumbers : (InDom(i) /\ items[i].error) => ~queueHidden)
    /\ [][~PageLeft =>
            \A i \in FileNumbers :
                (InDom(i) /\ items[i].error)
                => /\ items'[i].inQueue
                   /\ items'[i].error
                   /\ ~items'[i].complete
                   /\ items'[i].statusText = items[i].statusText]_vars

\* An item failed by a network error is still shown after the other request
\* has been answered.
C7_Witness ==
    /\ lastEvent = "load"
    /\ \E i \in PageItems :
          /\ i # lastItem
          /\ items[i].ruling = "lost"
          /\ InDom(i) /\ items[i].error
          /\ ~queueHidden

\* C8: an item in the complete status is eventually out of the queue; the
\* queue is visible whenever it holds an item, a removal that empties it
\* hides it, and on a living page nothing else hides it.
C8_CompleteItemRemoved ==
    /\ \A i \in FileNumbers : (InDom(i) /\ items[i].complete) ~> ~InDom(i)
    /\ [](QueueChildren(items) # {} => ~queueHidden)
    /\ [][/\ (lastEvent' = "timeout" /\ QueueChildren(items) # {}
                /\ QueueChildren(items') = {}) => queueHidden'
          /\ (~PageLeft /\ ~queueHidden /\ queueHidden')
                => /\ lastEvent' = "timeout"
                   /\ QueueChildren(items) # {}
                   /\ QueueChildren(items') = {}]_vars

\* The timeout of a completed item has removed the last item and the queue
\* is hidden.
C8_Witness ==
    /\ lastEvent = "timeout"
    /\ items[lastItem].complete
    /\ ~InDom(lastItem)
    /\ QueueChildren(items) = {}
    /\ queueHidden

\* C9 as stated: every item that reaches a terminal status, complete or
\* error, is eventually removed from the DOM.
C9_EveryTerminalItemRemoved ==
    \A i \in FileNumbers : (InDom(i) /\ Terminal(i)) ~> ~InDom(i)

\* C9: an item in the DOM with a terminal status has a removal timeout
\* pending exactly when that status is complete; a complete item is
\* eventually removed, an error item is not removed while the page lives.
C9_OnlyCompleteItemRemoved ==
    /\ [](\A i \in FileNumbers :
             (InDom(i) /\ Terminal(i)) => (items[i].removal <=> items[i].complete))
    /\ \A i \in FileNumbers : (InDom(i) /\ items[i].removal) ~> ~InDom(i)
    /\ [][~PageLeft =>
            \A i \in FileNumbers : (InDom(i) /\ ~items[i].removal) => items'[i].inQueue]_vars

\* The completed item is gone from the queue and the rejected item, with no
\* timeout pending, is still there.
C9_Witness ==
    \E i, j \in PageItems :
        /\ items[i].ruling = "rejected"
        /\ InDom(i) /\ items[i].error /\ ~items[i].removal
        /\ items[j].complete /\ ~InDom(j)

\* The step handled an event of that name.
Did(name) == events' = events + 1 /\ lastEvent' = name

\* Math.min(MAX_SCALE, Math.max(MIN_SCALE, s)) on hundredths.
Clamped(s) == IF s < MIN_SCALE THEN MIN_SCALE ELSE IF s > MAX_SCALE THEN MAX_SCALE ELSE s

\* The pan that single-pointer tracking gives the image, in twentieths.
Tracked(id) == <<pointers[id][1] * PanUnit - dragStartX, pointers[id][2] * PanUnit - dragStartY>>

\* C11: right after the lightbox was opened on an image scale is 1, pan is
\* (0, 0), the overlay is visible and scroll is locked; a trigger without an
\* image source never opens the overlay, never becomes the active trigger
\* and never locks scroll.
C11_OpenResetsView ==
    /\ lastEvent = "openOverlay" =>
          /\ scale = MIN_SCALE /\ panX = 0 /\ panY = 0
          /\ overlay = "active"
          /\ bodyOverflow = "hidden"
    /\ \A t \in ViewerTriggers : TriggerSrc(t) = "" => lastActiveTrigger # t
    /\ overlay = "active" => overlayImageSrc # ""
    /\ overlay = "undefined" => bodyOverflow = pageOverflow

\* The lightbox was opened again after the image had been panned: the drag
\* anchor still carries the pan the image had at the last pointer down.
C11_Witness ==
    /\ lastEvent = "openOverlay"
    /\ dragStartX \notin {p[1] * PanUnit : p \in Positions}
    /\ scale = MIN_SCALE /\ panX = 0 /\ panY = 0
    /\ overlay = "active"

\* C12: a zoom key or zoom button moves scale by 0.25 up or down, clamped to
\* [1.0, 5.0]; pan becomes (0, 0) when the new scale is 1.0 and is unchanged
\* otherwise.
C12_DiscreteZoom ==
    [][/\ Did("zoomIn") => scale' = Clamped(scale + SCALE_STEP)
       /\ Did("zoomOut") => scale' = Clamped(scale - SCALE_STEP)
       /\ (Did("zoomIn") \/ Did("zoomOut")) =>
             IF scale' = MIN_SCALE
             THEN panX' = 0 /\ panY' = 0
             ELSE panX' = panX /\ panY' = panY]_vars

\* A zoom-out has brought scale to 1.0 and pan to (0, 0) while a pointer is
\* down whose drag anchor still carries the pan the image had.
C12_Witness ==
    /\ lastEvent = "zoomOut"
    /\ scale = MIN_SCALE /\ panX = 0 /\ panY = 0
    /\ \E id \in ActivePointers :
          /\ ActivePointers = {id}
          /\ Tracked(id) # <<0, 0>>

\* pan' is pan moved by 5% of one of the cursor offsets.
Nudged(x, y) ==
    \E offset \in WheelOffsets : panX' = x + offset[1] /\ panY' = y + offset[2]

\* C13 as stated: every wheel tick steps scale by 0.25 up or down, clamped,
\* and moves the pan that the step left by 5% of the cursor offset.
C13_EveryTickNudges ==
    [][Did("onWheel") =>
          /\ scale' \in {Clamped(scale + SCALE_STEP), Clamped(scale - SCALE_STEP)}
          /\ IF scale' = MIN_SCALE THEN Nudged(0, 0) ELSE Nudged(panX, panY)]_vars

\* C13: a wheel tick steps scale by 0.25 up or down, clamped.  A tick that
\* made scale larger moves pan by 5% of the cursor offset; any other tick
\* leaves pan alone, but for the reset to (0, 0) when scale comes to 1.0.
C13_OnlyZoomInNudges ==
    [][Did("onWheel") =>
          \/ /\ scale' = Clamped(scale + SCALE_STEP)
             /\ scale' > scale
             /\ Nudged(panX, panY)
          \/ /\ scale' = Clamped(scale + SCALE_STEP)
             /\ scale' = scale
             /\ panX' = panX /\ panY' = panY
          \/ /\ scale' = Clamped(scale - SCALE_STEP)
             /\ IF scale' = MIN_SCALE
                THEN panX' = 0 /\ panY' = 0
                ELSE panX' = panX /\ panY' = panY]_vars

\* A wheel tick has brought scale down to 1.0 and left pan at (0, 0), not
\* nudged, while a pointer is down whose anchor carries the earlier pan.
C13_Witness ==
    /\ lastEvent = "onWheel"
    /\ scale = MIN_SCALE /\ panX = 0 /\ panY = 0
    /\ \E id \in ActivePointers :
          /\ ActivePointers = {id}
          /\ isDragging
          /\ Tracked(id) # <<0, 0>>

\* The distance between the two active pointers after the step.
PinchDistance ==
    LET a == CHOOSE i \in ActivePointers : TRUE
        b == CHOOSE i \in ActivePointers : i # a
    IN  distanceBetween(pointers'[a], pointers'[b])

\* A move of one of exactly two active pointers.
PinchMove == Did("onPointerMove") /\ Cardinality(ActivePointers) = 2

C15_NoPanAtScaleOne ==
    [][Did("onPointerMove") =>
          /\ scale = MIN_SCALE => (panX' = panX /\ panY' = panY)
          /\ (panX' # panX \/ panY' # panY) => Cardinality(ActivePointers) = 1]_vars

\* C16: right after a pointer was lifted, a single remaining pointer that
\* drags has the drag anchor taken from its position, and two remaining
\* pointers have the pinch baseline taken from their distance and from scale.
C16_GestureStateRecomputed ==
    lastEvent = "onPointerUp" =>
        /\ \A id \in ActivePointers :
               (ActivePointers = {id} /\ isDragging) => Tracked(id) = <<panX, panY>>
        /\ \A a, b \in ActivePointers :
               (a # b /\ ActivePointers = {a, b}) =>
                   /\ initialPinchDistance = distanceBetween(pointers[a], pointers[b])
                   /\ pinchStartScale = scale

\* C17: a delete request that left the page had been confirmed by the user.
C17_DeleteNeedsConfirmation ==
    lastEvent \in {"delete", "deleteFailed"} => deleteConfirmed

MergedMetas ==
    UNION {{items[i].response.body.attachments[k] :
               k \in 1..Len(items[i].response.body.attachments)} :
           i \in {j \in PageItems : items[j].complete}}

\* C19: a card rendered by the client shows a delete action only if the page
\* has the manage capability and a merged metadata record of that id carried
\* a delete_url.
C19_DeleteActionGuarded ==
    \A id \in deleteLinks \cap mergedIds :
        /\ canManage
        /\ \E meta \in MergedMetas : meta.id = id /\ meta.delete_url # ""

\* On a page without the manage capability a response with a delete_url has
\* been merged and its card shows no delete action.
C19_Witness ==
    /\ ~canManage
    /\ \E meta \in MergedMetas :
          /\ meta.delete_url # ""
          /\ meta.id \in Ids(cards)
          /\ meta.id \notin deleteLinks

\* C20: every upload request the page has sent carries X-Requested-With:
\* XMLHttpRequest and a CSRF token header whose value is the value the
\* csrftoken cookie had when the request was sent.
C20_HeadersCarryCookie ==
    \A i \in PageItems :
        /\ items[i].headers.xRequestedWith = "XMLHttpRequest"
        /\ items[i].headers.xCSRFToken = items[i].cookieAtSend

\* C21: once an upload has completed and its queue item has disappeared, the
\* card inserted for it offers a delete control that asks for confirmation
\* before it deletes.
C21_DeleteControlOffered ==
    \A i \in PageItems :
        items[i].complete /\ ~InDom(i) =>
            \A k \in 1..Len(items[i].response.body.attachments) :
                LET meta == items[i].response.body.attachments[k]
                IN  meta.delete_url # "" /\ meta.id \in Ids(cards) =>
                        meta.id \in deleteLinks /\ AsksConfirmation(meta.id)

\* C22: a change event of the file input with no file selected creates no
\* queue item, sends no request, and leaves the visibility of the queue,
\* the gallery and the empty state as they were.
C22_EmptySelectionNoOp ==
    [][lastEvent' = "emptyChange" =>
          /\ nFiles' = nFiles
          /\ items' = items
          /\ queueHidden' = queueHidden
          /\ cards' = cards
          /\ deleteLinks' = deleteLinks
          /\ emptyStateHidden' = emptyStateHidden]_vars

\* An empty selection was made while the queue was hidden again after an
\* upload, and the queue is still hidden.
C22_Witness ==
    /\ lastEvent = "emptyChange"
    /\ nFiles > 0
    /\ queueHidden
    /\ cards # <<>>

\* How often x occurs in a sequence.
Occurs(seq, x) == Cardinality({k \in DOMAIN seq : seq[k] = x})

\* The names of the files the reply reports as stored.
StoredNames(reply) == [k \in DOMAIN reply.attachments |-> reply.attachments[k].name]

\* The names of the files the reply reports as rejected for that reason.
RejectedNames(reply, reason) ==
    [k \in DOMAIN reply.errors |->
        IF reply.errors[k].errors = <<reason>> THEN reply.errors[k].filename ELSE ""]

\* C23: in an upload request every file above max_bytes is rejected as
\* "file too large" whatever its type; a file within the size limit whose
\* type is neither allowed nor matches an allowed prefix is rejected as
\* "unsupported type"; a file that passes both is rejected only by a
\* configured scan handler, with the handler's reason; every other file of
\* the request, one of exactly max_bytes included, is persisted, however many
\* of its siblings were rejected.
C23_ValidationBoundary ==
    [][lastEvent' = "apiUpload" =>
          /\ \A f \in CandidateFiles :
                LET n == Occurs(apiCall'.files, f)
                    sizeOk == FileSize(f) <= MaxUploadBytes
                    typeOk == \/ FileType(f) \in AllowedTypes
                              \/ FileType(f)[1] \in AllowedPrefixes
                    scan == ScanHandler(apiCall'.handler, f)
                    reason == IF ~sizeOk THEN "file too large"
                              ELSE IF ~typeOk THEN "unsupported type"
                              ELSE scan
                IN  IF sizeOk /\ typeOk /\ scan = "accepted"
                    THEN /\ Occurs(StoredNames(apiReply'), f) = n
                         /\ \A k \in DOMAIN apiReply'.errors :
                                apiReply'.errors[k].filename # f
                    ELSE /\ Occurs(StoredNames(apiReply'), f) = 0
                         /\ Occurs(RejectedNames(apiReply', reason), f) = n
          /\ LET ids == {apiReply'.attachments[k].id : k \in DOMAIN apiReply'.attachments}
             IN  /\ Cardinality(ids) = Len(apiReply'.attachments)
                 /\ ids \cap serverAttachments = {}
                 /\ serverAttachments' = serverAttachments \cup ids
                 /\ objects' = objects \cup ids]_vars

\* One request carried an oversized file of a type that is not allowed, a
\* file of exactly max_bytes and a file the scan handler rejects: only the
\* second was persisted.
C23_Witness ==
    /\ lastEvent = "apiUpload"
    /\ apiCall.files = <<"huge.exe", "photo.png", "virus.png">>
    /\ apiCall.handler = "scanner"
    /\ StoredNames(apiReply) = <<"photo.png">>
    /\ apiReply.errors = <<[filename |-> "huge.exe", errors |-> <<"file too large">>],
                           [filename |-> "virus.png", errors |-> <<"infected">>]>>
    /\ apiReply.attachments[1].id \in serverAttachments \cap objects

\* C24: a delete reported successful has removed the object and the record;
\* a record is removed only when its object is gone; an attachment that was
\* deleted never comes back; and a List response names exactly the records.
C24_DeleteConsistency ==
    [][/\ lastEvent' = "apiDelete" /\ apiReply'.status \in 200..299 =>
             /\ apiCall'.id \notin serverAttachments'
             /\ apiCall'.id \notin objects'
       /\ \A id \in serverAttachments \ serverAttachments' : id \notin objects'
       /\ \A id \in 1..MaxStored :
             /\ id < nextId /\ id \notin serverAttachments => id \notin serverAttachments'
             /\ id < nextId /\ id \notin objects => id \notin objects'
       /\ lastEvent' = "apiList" =>
             /\ Ids(apiReply'.list) = serverAttachments
             /\ Len(apiReply'.list) = Cardinality(serverAttachments)]_vars

\* A delete was reported successful while other attachments are stored:
\* its object and its record are gone, the others are intact.
C24_Witness ==
    /\ lastEvent = "apiDelete"
    /\ apiReply.status = 204
    /\ apiCall.id \notin serverAttachments \cup objects
    /\ serverAttachments # {}
    /\ objects = serverAttachments

\* C25: a call of the login helper that submits credentials submits the
\* values of PLAYWRIGHT_USERNAME and PLAYWRIGHT_PASSWORD when they are set
\* and the credentials of the seeded user when they are not.
C25_DefaultsAreSeedUser ==
    lastEvent = "loginIfNeeded" /\ submitted # NoCredentials =>
        /\ processEnv = NoCredentials => submitted = SeedUser
        /\ processEnv.user # "" /\ processEnv.pass # "" => submitted = processEnv

\* C26: once the request of an upload has settled, with any status and any
\* body or with a network error, its queue item is complete or error.
C26_SettledIsTerminal ==
    \A i \in PageItems : items[i].xhr = "settled" => Terminal(i)

\* No populateUnits call is waiting for its fetch or its body.
UnitsSettled ==
    \A r \in RequestNumbers : unitRequests[r].stage \notin {"fetching", "parsing"}

\* The units the select lists.
ListedUnits == {unitField.options[k] : k \in 2..Len(unitField.options)}

\* C27: once every unit request has settled, the select lists no unit of a
\* building other than the selected one, and when the request of the latest
\* selection succeeded it lists exactly the units of the selected building.
C27_UnitsOfCurrentBuilding ==
    widgetReady /\ UnitsSettled =>
        /\ ListedUnits \subseteq Ids(Units(buildingValue))
        /\ nRequests > 0 /\ unitRequests[nRequests].stage = "done" /\ buildingValue # "" =>
              ListedUnits = Ids(Units(buildingValue))

\* C28: on a living page no queue item carries the complete and the error
\* marking together, and an item that is complete or error keeps its
\* marking and its status text in every later step.
C28_OneTerminalStatus ==
    [][~PageLeft =>
          \A i \in PageItems :
              /\ ~(items'[i].complete /\ items'[i].error)
              /\ Terminal(i) =>
                    /\ items'[i].complete = items[i].complete
                    /\ items'[i].error = items[i].error
                    /\ items'[i].statusText = items[i].statusText]_vars

\* One item of the page is in the error status and another one was
\* completed by a later load event.
C28_Witness ==
    \E i, j \in PageItems :
        /\ i < j
        /\ items[i].error /\ ~items[i].complete
        /\ items[j].complete /\ ~items[j].error
        /\ lastEvent = "load" /\ lastItem = j

\* C29: while the lightbox is open and neither load nor error of the image
\* it requested has fired, the spinner is visible.
C29_SpinnerUntilImageEvent ==
    overlay = "active" /\ "request" \in imagePending => ~overlaySpinnerHidden

\* C30: while the preview modal is open and the load event of the URL it
\* requested has not fired, the spinner is visible.
C30_SpinnerUntilFrameLoad ==
    docOverlay = "active" /\ "request" \in framePending => ~docSpinnerHidden

\* C31: a step that closes the lightbox leaves it hidden with no image
\* source, no active pointer, no drag and no pinch baseline, and the focus
\* on the trigger of the last open; while the lightbox stays closed no step
\* changes scale or pan; and a lightbox that was never opened is not closed.
C31_CloseClearsAndRefocuses ==
    [][/\ (overlay = "active" /\ overlay' = "hidden") =>
             /\ overlayImageSrc' = ""
             /\ \A id \in PointerIds : pointers'[id] = NoPointer
             /\ ~isDragging'
             /\ initialPinchDistance' = 0
             /\ focus' = lastActiveTrigger
       /\ (overlay = "hidden" /\ overlay' = "hidden") =>
             UNCHANGED <<scale, panX, panY>>
       /\ overlay = "undefined" =>
             overlay' # "hidden" /\ UNCHANGED <<gestureVars, transformVars>>]_vars

\* C32: in every state of the lightbox, scale 1.0 comes with pan (0, 0).
C32_UnzoomedImageCentred ==
    scale = MIN_SCALE => (panX = 0 /\ panY = 0)

\* C33: once every upload of the page has settled, the cards of the gallery
\* are in the order of the list endpoint, newest first.
C33_CardsNewestFirst ==
    (PageItems # {} /\ \A i \in PageItems : items[i].xhr = "settled")
        => cards = NewestFirst(Ids(cards))

\* The message the statement gives a failed upload: the error member of the
\* response, else the first error string of the first entry of its errors
\* member, else the generic label.
PriorityMessage(body) ==
    IF body.kind = "json" /\ body.error # "" THEN <<body.error>>
    ELSE IF /\ body.kind = "json"
            /\ body.errors # <<>>
            /\ body.errors[1].errors # <<>>
            /\ body.errors[1].errors[1] # ""
    THEN <<body.errors[1].errors[1]>>
    ELSE <<uploadLabels.failed>>

\* C34: the queue item of an upload that failed, with a status outside 2xx
\* or with a network error, shows the message chosen in that order, and the
\* message is not empty.
C34_FailureMessageByPriority ==
    \A i \in PageItems :
        LET r == items[i].response
            lost == items[i].ruling = "lost"
        IN  (items[i].xhr = "settled" /\ (lost \/ r.status \notin 200..299)) =>
                /\ items[i].statusText =
                       IF lost THEN <<uploadLabels.failed>> ELSE PriorityMessage(r.body)
                /\ ~Falsy(items[i].statusText)

\* C35: the unit select carries aria-busy exactly while a populateUnits call
\* is waiting for its response.
C35_BusyWhileInFlight ==
    widgetReady => ((unitField.ariaBusy = "true") <=> ~UnitsSettled)

\* C36: the unit select is enabled only when a request for the selected
\* building has succeeded with at least one unit; it is disabled while no
\* building is selected and while a request is pending; selecting no
\* building sends no request; and the step in which a request fails leaves
\* the select disabled with the placeholder as its only option.
C36_EnabledOnlyAfterSuccess ==
    [][/\ widgetReady' =>
             /\ ~unitField'.disabled =>
                    /\ buildingValue' # ""
                    /\ Units(buildingValue') # <<>>
                    /\ \E r \in RequestNumbers :
                           /\ unitRequests'[r].building = buildingValue'
                           /\ unitRequests'[r].stage = "done"
             /\ buildingValue' = "" => unitField'.disabled
             /\ (\E r \in RequestNumbers :
                    unitRequests'[r].stage \in {"fetching", "parsing"})
                   => unitField'.disabled
       /\ (buildingValue' = "" /\ lastEvent' \in {"initUnitsWidget", "buildingChange"})
             => nRequests' = nRequests
       /\ \A r \in RequestNumbers :
             (unitRequests[r].stage # "failed" /\ unitRequests'[r].stage = "failed") =>
                 /\ unitField'.disabled
                 /\ unitField'.options = <<"">>
                 /\ unitField'.value = ""]_vars

\* C37: a keydown event handled while the lightbox is not open changes
\* neither scale nor pan nor the visibility of the lightbox; while it is
\* open, Escape leaves it closed and 0 leaves scale 1.0 and pan (0, 0).
C37_KeysActOnlyWhileOpen ==
    [][/\ ((\E key \in Keys : KeyDown(key)) /\ overlay # "active") =>
             UNCHANGED <<scale, panX, panY, overlay>>
       /\ (KeyDown("Escape") /\ overlay = "active") => overlay' = "hidden"
       /\ (KeyDown("0") /\ overlay = "active") =>
             (scale' = MIN_SCALE /\ panX' = 0 /\ panY' = 0)]_vars

\* The lightbox was closed while the image was zoomed, and a later keydown
\* event, handled by the listener of the preview modal, closed the modal.
C37_Witness ==
    /\ overlay = "hidden"
    /\ scale > MIN_SCALE
    /\ docOverlay = "hidden"
    /\ lastEvent = "closeDocOverlay"
    /\ focus = lastActiveDocTrigger

\* C38: the document holds no lightbox element before the first open of the
\* lightbox and exactly one ever after, and the same for the preview modal.
C38_OneOverlayEach ==
    /\ overlayElements = IF overlay = "undefined" THEN 0 ELSE 1
    /\ docOverlayElements = IF docOverlay = "undefined" THEN 0 ELSE 1

\* Both overlays are open, each after having been closed and opened again:
\* the events of the clearing done by the close are still to come.
C38_Witness ==
    /\ overlay = "active" /\ imagePending = {"clearing", "request"}
    /\ docOverlay = "active" /\ framePending = {"blank", "request"}
    /\ overlayElements = 1 /\ docOverlayElements = 1

\* C39: the width of a queue item's progress bar, once set, is a percentage
\* between 0 and 100; it does not go down while the item is uploading; and
\* it is 100 when the item is complete or error.
C39_ProgressWithinBounds ==
    [][\A i \in FileNumbers :
          /\ items'[i].progress = NoWidth \/ items'[i].progress \in 0..100
          /\ ~(items'[i].complete \/ items'[i].error) =>
                 items'[i].progress >= items[i].progress
          /\ (items'[i].complete \/ items'[i].error) => items'[i].progress = 100]_vars

\* A progress event has just reported every byte of one upload sent, the
\* upload still being in flight, while another upload has ended in error.
C39_Witness ==
    \E i, j \in PageItems :
        /\ items[i].xhr = "sent" /\ items[i].loaded = 3 /\ items[i].progress = 100
        /\ ~Terminal(i)
        /\ lastEvent = "progress" /\ lastItem = i
        /\ items[j].error /\ items[j].progress = 100

\* C10: scroll is locked while the lightbox is open, and after any sequence
\* of opens and closes of the lightbox and the preview modal that ends with
\* both closed, body overflow is what the page was served with.
C10_ScrollRestored ==
    /\ overlay = "active" => bodyOverflow = "hidden"
    /\ (overlay # "active" /\ docOverlay # "active") => bodyOverflow = pageOverflow

====
